---- MODULE Spec2Model ----
(***************************************************************************)
(* Model of the X402 payment middleware for Tyk Gateway                    *)
(* (src/middleware/x402_payment.js).                                       *)
(*                                                                         *)
(* One logical request at a time travels: client sends -> host invokes     *)
(* the handler in the "pre" array -> (facilitator HTTP call) -> host       *)
(* either answers with the handler's override or proxies to the upstream   *)
(* resource -> host invokes the same handler in the "post" array ->        *)
(* (facilitator HTTP call) -> done.  The handler keeps no state between    *)
(* invocations; everything it knows arrives in request.Headers.            *)
(***************************************************************************)
EXTENDS Integers, Sequences, FiniteSets, TLC

(***************************************************************************)
(* JavaScript values.  Strings are TLA+ strings; the non-string values a   *)
(* field can hold are the sentinels below.  Numbers produced by parseInt   *)
(* are records [nan, n].                                                   *)
(***************************************************************************)
Undefined == "<undefined>"
Null == "<null>"
JSTrue == "<true>"
JSFalse == "<false>"

\* JavaScript truthiness of a string-or-sentinel value
Truthy(v) == v \notin {Undefined, Null, JSFalse, ""}

\* a || b
OrElse(a, b) == IF Truthy(a) THEN a ELSE b

NaN == [nan |-> TRUE, n |-> 0]
Num(k) == [nan |-> FALSE, n |-> k]

\* parseInt on the strings that occur as amounts
parseInt(s) ==
    CASE s = "100" -> Num(100)
      [] s = "200" -> Num(200)
      [] s = "1000000" -> Num(1000000)
      [] s = "0" -> Num(0)
      [] s = "-100" -> Num(0 - 100)
      [] OTHER -> NaN

(***************************************************************************)
(* Configuration constants (x402_payment.js 20-21)                         *)
(***************************************************************************)
FACILITATOR_URL == "https://facilitator.emfi.dev"
MIDDLEWARE_VERSION == "1.0.0"

\* the documented time limit for facilitator calls, in milliseconds
FACILITATOR_TIMEOUT == 5000

\* how many time limits in a row the facilitator may stay silent
MaxWait == 2

(***************************************************************************)
(* Header values: absent, a single string, or a list of strings.           *)
(***************************************************************************)
Absent == [kind |-> "absent", v |-> <<>>]
Scalar(s) == [kind |-> "scalar", v |-> <<s>>]
List(ss) == [kind |-> "list", v |-> ss]

\* truthiness of a header value: undefined and "" are falsy, arrays are truthy
HeaderTruthy(h) ==
    CASE h.kind = "absent" -> FALSE
      [] h.kind = "scalar" -> h.v[1] # ""
      [] OTHER -> TRUE

\* header[0]: first element of a list, first character of a string
\* (a single character never equals a longer literal; "<char>" stands for it)
Index0(h) ==
    CASE h.kind = "list" -> IF Len(h.v) > 0 THEN h.v[1] ELSE Undefined
      [] h.kind = "scalar" -> IF h.v[1] = "" THEN Undefined ELSE "<char>"
      [] OTHER -> Undefined

\* header.length
Length(h) == IF h.kind = "list" THEN Len(h.v) ELSE 1

\* getHeaderValue (x402_payment.js 383-386)
getHeaderValue(header) ==
    IF ~HeaderTruthy(header) THEN Null
    ELSE IF header.kind = "list"
         THEN (IF Len(header.v) > 0 THEN header.v[1] ELSE Undefined)
         ELSE header.v[1]

HeaderNames ==
    {"X-Payment-x402", "X-Payment-X402", "x-payment-x402", "X-Payment",
     "X-Payment-Valid", "X-Payment-Network", "X-Payment-Tx", "X-Payment-Payer",
     "X-Payment-Amount", "X-Payment-Token", "X-Payment-Recipient"}

NoHeaders == [h \in HeaderNames |-> Absent]

(***************************************************************************)
(* Per-route configuration: session.config_data.paths[path][method].x402   *)
(***************************************************************************)
NoX402 ==
    [scheme |-> Undefined, network |-> Undefined, description |-> Undefined,
     payTo |-> Undefined, asset |-> Undefined, maxAmountRequired |-> Undefined,
     feePayer |-> Undefined]

BitcoinX402 ==
    [NoX402 EXCEPT !.network = "solana-devnet", !.payTo = "PAYTO_WALLET",
                   !.asset = "TOKEN_MINT", !.maxAmountRequired = "100",
                   !.feePayer = "FEE_PAYER"]

StocksX402 ==
    [BitcoinX402 EXCEPT !.maxAmountRequired = "200", !.scheme = "exact",
                        !.description = "Daily stock data"]

\* a requirement that leaves the optional fields (and network, amount) out
BareX402 == [NoX402 EXCEPT !.payTo = "PAYTO_WALLET", !.asset = "TOKEN_MINT"]

Metered(x) == [hasX402 |-> TRUE, x402 |-> x]
Unmetered == [hasX402 |-> FALSE, x402 |-> NoX402]

config_data ==
    [hasPaths |-> TRUE,
     paths |-> [p \in {"/market/crypto/bitcoin", "/stocks/daily/AAPL",
                       "/content/posts", "/bare"} |->
                  CASE p = "/market/crypto/bitcoin" -> [m \in {"get"} |-> Metered(BitcoinX402)]
                    [] p = "/stocks/daily/AAPL" -> [m \in {"get"} |-> Metered(StocksX402)]
                    [] p = "/content/posts" -> [m \in {"get"} |-> Unmetered]
                    [] OTHER -> [m \in {"get"} |-> Metered(BareX402)]]]

\* the API definition the README gives: the requirement directly under
\* config_data, without a paths mapping (README.md 60-68)
ReadmeX402 ==
    [NoX402 EXCEPT !.network = "solana-devnet", !.payTo = "YOUR_WALLET_ADDRESS",
                   !.asset = "TOKEN_MINT_ADDRESS", !.maxAmountRequired = "100",
                   !.feePayer = "FEE_PAYER_ADDRESS"]

readme_config_data == [hasPaths |-> FALSE, paths |-> <<>>, x402 |-> ReadmeX402]

\* the configurations an API definition can give the handler
Sessions == {[config_data |-> c] : c \in {config_data, readme_config_data}}

\* String.prototype.toLowerCase on the request methods
toLowerCase(m) ==
    CASE m = "GET" -> "get"
      [] m = "POST" -> "post"
      [] OTHER -> m

(***************************************************************************)
(* JSON.parse of the proof header text.  ok = FALSE is a SyntaxError.      *)
(***************************************************************************)
ProofTX1 == "{\"transaction\":\"TX1\"}"
ProofPL1 == "{\"payload\":\"PL1\"}"
ProofFull == "{\"network\":\"ethereum\",\"transaction\":\"TX1\",\"payer\":\"MALLORY\"}"
ProofEmptyTx == "{\"transaction\":\"\"}"

NoProof == [ok |-> FALSE, t |-> "none", transaction |-> Undefined,
            payload |-> Undefined, network |-> Undefined, payer |-> Undefined]

JSONparseProof(text) ==
    CASE text = "null" -> [NoProof EXCEPT !.ok = TRUE, !.t = "null"]
      [] text = "42" -> [NoProof EXCEPT !.ok = TRUE, !.t = "prim"]
      [] text = "{}" -> [NoProof EXCEPT !.ok = TRUE, !.t = "obj"]
      [] text = ProofTX1 -> [NoProof EXCEPT !.ok = TRUE, !.t = "obj", !.transaction = "TX1"]
      [] text = ProofPL1 -> [NoProof EXCEPT !.ok = TRUE, !.t = "obj", !.payload = "PL1"]
      [] text = ProofEmptyTx -> [NoProof EXCEPT !.ok = TRUE, !.t = "obj", !.transaction = ""]
      [] text = ProofFull -> [NoProof EXCEPT !.ok = TRUE, !.t = "obj", !.transaction = "TX1",
                                             !.network = "ethereum", !.payer = "MALLORY"]
      [] OTHER -> NoProof

(***************************************************************************)
(* What TykMakeHttpRequest can hand back to callFacilitator.               *)
(*   kind "throw"  the host call itself raises                             *)
(*        "none"   no response string (connection refused, timeout)        *)
(*        "text"   a string that is not JSON                               *)
(*        "null"   the JSON text null                                      *)
(*        "prim"   a JSON number or string                                 *)
(*        "env"    a JSON object; Code = 0 stands for a missing/zero Code  *)
(* Body is the envelope's Body string: kind "undefined" (no Body), "text"  *)
(* (not JSON), "null", "prim" or "obj" with the decoded fields.            *)
(***************************************************************************)
NoBody ==
    [kind |-> "undefined", raw |-> "undefined", isValid |-> Undefined,
     transaction |-> Undefined, payer |-> Undefined, error |-> Undefined,
     message |-> Undefined, signature |-> Undefined]

TextBody(raw) == [NoBody EXCEPT !.kind = "text", !.raw = raw]
NullBody == [NoBody EXCEPT !.kind = "null", !.raw = "null"]
PrimBody == [NoBody EXCEPT !.kind = "prim", !.raw = "7"]
ObjBody(iv, tx, payer, err, msg, sig) ==
    [kind |-> "obj", raw |-> "{...}", isValid |-> iv, transaction |-> tx,
     payer |-> payer, error |-> err, message |-> msg, signature |-> sig]

Reply(kind, code, body) == [kind |-> kind, Code |-> code, Body |-> body]

\* JSON.parse(response.Body)
JSONparseBody(body) ==
    IF body.kind \in {"null", "prim", "obj"}
    THEN [ok |-> TRUE, data |-> [body EXCEPT !.raw = ""]]
    ELSE [ok |-> FALSE, data |-> NoBody]

(***************************************************************************)
(* callFacilitator (x402_payment.js 313-374), from the point where         *)
(* TykMakeHttpRequest returns `reply`.  threw = TRUE: an exception leaves  *)
(* the function.                                                           *)
(***************************************************************************)
FacResult(threw, success, data, error) ==
    [threw |-> threw, success |-> success, data |-> data, error |-> error]

callFacilitator(reply) ==
    CASE reply.kind = "throw" -> FacResult(TRUE, FALSE, NoBody, "")
      [] reply.kind = "none" ->
            FacResult(FALSE, FALSE, NoBody, "Failed to communicate with facilitator (no response)")
      [] reply.kind = "text" ->
            FacResult(FALSE, FALSE, NoBody, "Invalid response from facilitator: SyntaxError")
      [] reply.kind = "null" -> FacResult(TRUE, FALSE, NoBody, "")
      [] reply.kind = "prim" ->
            FacResult(FALSE, FALSE, NoBody, "Invalid response format from facilitator")
      [] OTHER ->
            IF reply.Code = 0
            THEN FacResult(FALSE, FALSE, NoBody, "Invalid response format from facilitator")
            ELSE IF reply.Code # 200
            THEN FacResult(FALSE, FALSE, NoBody,
                     "Facilitator returned status " \o ToString(reply.Code) \o ": " \o reply.Body.raw)
            ELSE IF ~JSONparseBody(reply.Body).ok
            THEN FacResult(FALSE, FALSE, NoBody,
                     "Failed to parse facilitator response body: SyntaxError")
            ELSE FacResult(FALSE, TRUE, JSONparseBody(reply.Body).data, "")

(***************************************************************************)
(* The Tyk request object handed to the handler, and the response bodies   *)
(* the handler writes into request.ReturnOverrides.  ResponseCode = 0:     *)
(* no override.  A field holding Undefined is dropped by JSON.stringify.   *)
(***************************************************************************)
NoRequirements ==
    [scheme |-> Undefined, network |-> Undefined, description |-> Undefined,
     payTo |-> Undefined, asset |-> Undefined, maxAmountRequired |-> Undefined,
     maxTimeoutSeconds |-> 0]

NoError ==
    [error |-> Undefined, message |-> Undefined, x402Version |-> 0,
     paymentRequirements |-> NoRequirements]

NoOverrides ==
    [ResponseCode |-> 0, ResponseError |-> NoError, ResponseHeaders |-> {}]

NoSetHeaders == [h \in HeaderNames |-> Undefined]

NewRequest(url, method, headers) ==
    [URL |-> url, Method |-> method, Headers |-> headers,
     SetHeaders |-> NoSetHeaders, ReturnOverrides |-> NoOverrides]

\* variant: the payment-required answer is sent as 401
requestPayment_unauthorized(request, x402Config) ==
    [request EXCEPT !.ReturnOverrides =
        [ResponseCode |-> 401,
         ResponseError |->
            [error |-> "Payment Required",
             message |-> "This resource requires a valid X402 payment",
             x402Version |-> 1,
             paymentRequirements |->
                [scheme |-> OrElse(x402Config.scheme, "exact"),
                 network |-> OrElse(x402Config.network, "solana-devnet"),
                 description |-> OrElse(x402Config.description, "Access to " \o request.URL),
                 payTo |-> x402Config.payTo,
                 asset |-> x402Config.asset,
                 maxAmountRequired |-> OrElse(x402Config.maxAmountRequired, "1000000"),
                 maxTimeoutSeconds |-> 60]],
         ResponseHeaders |->
            {<<"Content-Type", "application/json">>,
             <<"X-Payment-Required", "x402">>,
             <<"X-Payment-Status", "required">>,
             <<"X-Payment-Protocol-Version", MIDDLEWARE_VERSION>>}]]

\* variant: a request that names an earlier transaction is quoted no amount
requestPayment_quotedByHeader(request, x402Config) ==
    [request EXCEPT !.ReturnOverrides =
        [ResponseCode |-> 402,
         ResponseError |->
            [error |-> "Payment Required",
             message |-> "This resource requires a valid X402 payment",
             x402Version |-> 1,
             paymentRequirements |->
                [scheme |-> OrElse(x402Config.scheme, "exact"),
                 network |-> OrElse(x402Config.network, "solana-devnet"),
                 description |-> OrElse(x402Config.description, "Access to " \o request.URL),
                 payTo |-> x402Config.payTo,
                 asset |-> x402Config.asset,
                 maxAmountRequired |->
                    IF HeaderTruthy(request.Headers["X-Payment-Tx"])
                    THEN "0"
                    ELSE OrElse(x402Config.maxAmountRequired, "1000000"),
                 maxTimeoutSeconds |-> 60]],
         ResponseHeaders |->
            {<<"Content-Type", "application/json">>,
             <<"X-Payment-Required", "x402">>,
             <<"X-Payment-Status", "required">>,
             <<"X-Payment-Protocol-Version", MIDDLEWARE_VERSION>>}]]

\* variant: the default description does not name the request URL
requestPayment_genericDescription(request, x402Config) ==
    [request EXCEPT !.ReturnOverrides =
        [ResponseCode |-> 402,
         ResponseError |->
            [error |-> "Payment Required",
             message |-> "This resource requires a valid X402 payment",
             x402Version |-> 1,
             paymentRequirements |->
                [scheme |-> OrElse(x402Config.scheme, "exact"),
                 network |-> OrElse(x402Config.network, "solana-devnet"),
                 description |-> OrElse(x402Config.description, "Access to resource"),
                 payTo |-> x402Config.payTo,
                 asset |-> x402Config.asset,
                 maxAmountRequired |-> OrElse(x402Config.maxAmountRequired, "1000000"),
                 maxTimeoutSeconds |-> 60]],
         ResponseHeaders |->
            {<<"Content-Type", "application/json">>,
             <<"X-Payment-Required", "x402">>,
             <<"X-Payment-Status", "required">>,
             <<"X-Payment-Protocol-Version", MIDDLEWARE_VERSION>>}]]

\* requestPayment (x402_payment.js 253-284)
requestPayment(request, x402Config) ==
    [request EXCEPT !.ReturnOverrides =
        [ResponseCode |-> 402,
         ResponseError |->
            [error |-> "Payment Required",
             message |-> "This resource requires a valid X402 payment",
             x402Version |-> 1,
             paymentRequirements |->
                [scheme |-> OrElse(x402Config.scheme, "exact"),
                 network |-> OrElse(x402Config.network, "solana-devnet"),
                 description |-> OrElse(x402Config.description, "Access to " \o request.URL),
                 payTo |-> x402Config.payTo,
                 asset |-> x402Config.asset,
                 maxAmountRequired |-> OrElse(x402Config.maxAmountRequired, "1000000"),
                 maxTimeoutSeconds |-> 60]],
         ResponseHeaders |->
            {<<"Content-Type", "application/json">>,
             <<"X-Payment-Required", "x402">>,
             <<"X-Payment-Status", "required">>,
             <<"X-Payment-Protocol-Version", MIDDLEWARE_VERSION>>}]]

\* variant: the rejection is written without its response code
rejectPayment_noResponseCode(request, reason) ==
    [request EXCEPT !.ReturnOverrides =
        [ResponseCode |-> 0,
         ResponseError |-> [NoError EXCEPT !.error = "Payment Invalid", !.message = reason],
         ResponseHeaders |->
            {<<"Content-Type", "application/json">>,
             <<"X-Payment-Status", "invalid">>}]]

\* rejectPayment (x402_payment.js 289-300)
rejectPayment(request, reason) ==
    [request EXCEPT !.ReturnOverrides =
        [ResponseCode |-> 402,
         ResponseError |-> [NoError EXCEPT !.error = "Payment Invalid", !.message = reason],
         ResponseHeaders |->
            {<<"Content-Type", "application/json">>,
             <<"X-Payment-Status", "invalid">>}]]

\* variant: the caught exception's text is sent as the message
internalError_faultText(request) ==
    [request EXCEPT !.ReturnOverrides =
        [ResponseCode |-> 500,
         ResponseError |->
            [NoError EXCEPT !.error = "Internal Server Error",
                            !.message = "TypeError: Cannot access member of null"],
         ResponseHeaders |-> {<<"Content-Type", "application/json">>}]]

\* the catch block of verifyPayment (x402_payment.js 165-174)
internalError(request) ==
    [request EXCEPT !.ReturnOverrides =
        [ResponseCode |-> 500,
         ResponseError |->
            [NoError EXCEPT !.error = "Internal Server Error",
                            !.message = "Payment verification failed due to internal error"],
         ResponseHeaders |-> {<<"Content-Type", "application/json">>}]]

(***************************************************************************)
(* Facilitator requests: endpoint and JSON payload.  One record shape for  *)
(* both endpoints; fields an endpoint does not send are Undefined.         *)
(***************************************************************************)
NoCall ==
    [endpoint |-> "", ppNetwork |-> Undefined, ppTransaction |-> Undefined,
     network |-> Undefined, kind |-> Undefined, recipient |-> Undefined,
     feePayer |-> Undefined, amount |-> NaN, token |-> Undefined,
     transaction |-> Undefined]

\* variant: a network named in the proof replaces the requirement's
VerifyCall_proofNetwork(paymentProof, x402Config) ==
    [NoCall EXCEPT !.endpoint = "/v1/verify",
                   !.ppNetwork = OrElse(paymentProof.network, x402Config.network),
                   !.ppTransaction = OrElse(paymentProof.transaction,
                                            OrElse(paymentProof.payload, "")),
                   !.network = x402Config.network,
                   !.kind = "spl-token",
                   !.recipient = x402Config.payTo,
                   !.feePayer = x402Config.feePayer,
                   !.amount = parseInt(x402Config.maxAmountRequired),
                   !.token = x402Config.asset]

\* the payload verifyPayment builds (x402_payment.js 123-136)
VerifyCall(paymentProof, x402Config) ==
    [NoCall EXCEPT !.endpoint = "/v1/verify",
                   !.ppNetwork = x402Config.network,
                   !.ppTransaction = OrElse(paymentProof.transaction,
                                            OrElse(paymentProof.payload, "")),
                   !.network = x402Config.network,
                   !.kind = "spl-token",
                   !.recipient = x402Config.payTo,
                   !.feePayer = x402Config.feePayer,
                   !.amount = parseInt(x402Config.maxAmountRequired),
                   !.token = x402Config.asset]

\* variant: the payer is sent where the transaction belongs
SettleCall_recipientAsTransaction(transaction, network, recipient, amount, token) ==
    [NoCall EXCEPT !.endpoint = "/v1/settle",
                   !.network = network,
                   !.transaction = recipient,
                   !.recipient = recipient,
                   !.amount = parseInt(amount),
                   !.token = token]

\* the payload settlePayment builds (x402_payment.js 225-231)
SettleCall(transaction, network, recipient, amount, token) ==
    [NoCall EXCEPT !.endpoint = "/v1/settle",
                   !.network = network,
                   !.transaction = transaction,
                   !.recipient = recipient,
                   !.amount = parseInt(amount),
                   !.token = token]

(***************************************************************************)
(* The handler runs until it returns or blocks in TykMakeHttpRequest.      *)
(*   Return(request)            the handler returned ReturnData(request)   *)
(*   Http(request, call, cfg)   blocked in the HTTP call `call`            *)
(***************************************************************************)
Return(request) == [tag |-> "return", request |-> request, call |-> NoCall, x402Config |-> NoX402]
Http(request, call, cfg) == [tag |-> "http", request |-> request, call |-> call, x402Config |-> cfg]

\* variant: any X-Payment-Valid header selects the settlement phase
isPostPhase_anyValue(request) ==
    HeaderTruthy(request.Headers["X-Payment-Valid"])

\* the phase test of the main handler (x402_payment.js 47-48)
isPostPhase(request) ==
    LET paymentValid == request.Headers["X-Payment-Valid"]
    IN  HeaderTruthy(paymentValid) /\ Index0(paymentValid) = "true"

\* verifyPayment up to the facilitator call (x402_payment.js 98-136)
verifyPaymentBegin(request, x402Config) ==
    LET h1 == request.Headers["X-Payment-x402"]
        h2 == request.Headers["X-Payment-X402"]
        paymentHeader == IF HeaderTruthy(h1) THEN h1 ELSE h2
        rawPayment == IF paymentHeader.kind = "list"
                      THEN Index0(paymentHeader) ELSE paymentHeader.v[1]
        paymentProof == JSONparseProof(rawPayment)
    IN  IF ~HeaderTruthy(paymentHeader) \/ Length(paymentHeader) = 0
        THEN Return(requestPayment(request, x402Config))
        ELSE IF ~paymentProof.ok
        THEN Return(rejectPayment(request, "Invalid JSON in X-Payment-x402 header"))
        ELSE IF paymentProof.t = "null"
        THEN Return(internalError(request))
        ELSE Http(request, VerifyCall(paymentProof, x402Config), x402Config)

\* variant: a method entry is verified whether or not it has an x402 block
handleVerification_anyMethodEntry(request, config) ==
    LET path == request.URL
        method == toLowerCase(request.Method)
        hasRoute == config.hasPaths /\ path \in DOMAIN config.paths
        hasMethod == hasRoute /\ method \in DOMAIN config.paths[path]
    IN  IF ~hasMethod
        THEN Return(request)
        ELSE verifyPaymentBegin(request, config.paths[path][method].x402)

\* variant: the path's "get" entry is used whatever the request's method
handleVerification_methodIgnored(request, config) ==
    LET path == request.URL
        hasRoute == config.hasPaths /\ path \in DOMAIN config.paths
        hasMethod == hasRoute /\ "get" \in DOMAIN config.paths[path]
    IN  IF ~hasMethod
        THEN Return(request)
        ELSE IF ~config.paths[path]["get"].hasX402
        THEN Return(request)
        ELSE verifyPaymentBegin(request, config.paths[path]["get"].x402)

\* handleVerification (x402_payment.js 66-89)
handleVerification(request, config) ==
    LET path == request.URL
        method == toLowerCase(request.Method)
        hasRoute == config.hasPaths /\ path \in DOMAIN config.paths
        hasMethod == hasRoute /\ method \in DOMAIN config.paths[path]
    IN  IF ~hasMethod
        THEN Return(request)
        ELSE IF ~config.paths[path][method].hasX402
        THEN Return(request)
        ELSE verifyPaymentBegin(request, config.paths[path][method].x402)

\* variant: the "unknown" sentinel is not recognised
handleSettlementBegin_noSentinel(request) ==
    LET transaction == getHeaderValue(request.Headers["X-Payment-Tx"])
        network == getHeaderValue(request.Headers["X-Payment-Network"])
        amount == getHeaderValue(request.Headers["X-Payment-Amount"])
        token == getHeaderValue(request.Headers["X-Payment-Token"])
        recipient == getHeaderValue(request.Headers["X-Payment-Recipient"])
    IN  IF ~Truthy(transaction)
        THEN Return(request)
        ELSE Http(request, SettleCall(transaction, network, recipient, amount, token), NoX402)

\* handleSettlement up to the facilitator call (x402_payment.js 187-203)
handleSettlementBegin(request) ==
    LET transaction == getHeaderValue(request.Headers["X-Payment-Tx"])
        network == getHeaderValue(request.Headers["X-Payment-Network"])
        amount == getHeaderValue(request.Headers["X-Payment-Amount"])
        token == getHeaderValue(request.Headers["X-Payment-Token"])
        recipient == getHeaderValue(request.Headers["X-Payment-Recipient"])
    IN  IF ~Truthy(transaction) \/ transaction = "unknown"
        THEN Return(request)
        ELSE Http(request, SettleCall(transaction, network, recipient, amount, token), NoX402)

\* the main handler (x402_payment.js 45-57)
NewProcessRequest(request, config) ==
    IF isPostPhase(request)
    THEN handleSettlementBegin(request)
    ELSE handleVerification(request, config)

\* variant: the token and the recipient headers take each other's value
CarriedHeaders_tokenRecipientSwapped(request, x402Config, tx, payer) ==
    [request EXCEPT !.SetHeaders =
        [request.SetHeaders EXCEPT
            !["X-Payment-Valid"] = "true",
            !["X-Payment-Network"] = x402Config.network,
            !["X-Payment-Tx"] = tx,
            !["X-Payment-Payer"] = payer,
            !["X-Payment-Amount"] = x402Config.maxAmountRequired,
            !["X-Payment-Token"] = x402Config.payTo,
            !["X-Payment-Recipient"] = x402Config.asset]]

\* the headers verifyPayment sets on a valid payment, given the two values
\* taken from the facilitator's body
CarriedHeaders(request, x402Config, tx, payer) ==
    [request EXCEPT !.SetHeaders =
        [request.SetHeaders EXCEPT
            !["X-Payment-Valid"] = "true",
            !["X-Payment-Network"] = x402Config.network,
            !["X-Payment-Tx"] = tx,
            !["X-Payment-Payer"] = payer,
            !["X-Payment-Amount"] = x402Config.maxAmountRequired,
            !["X-Payment-Token"] = x402Config.asset,
            !["X-Payment-Recipient"] = x402Config.payTo]]

\* variant: the facilitator's message field is preferred to its error field
verifyPaymentEnd_messageFirst(request, x402Config, reply) ==
    LET verificationResult == callFacilitator(reply)
        verifyBody == verificationResult.data
        errorMsg == OrElse(verifyBody.message, OrElse(verifyBody.error, "Payment not valid"))
    IN  IF verificationResult.threw
        THEN internalError(request)
        ELSE IF ~verificationResult.success
        THEN rejectPayment(request, verificationResult.error)
        ELSE IF verifyBody.kind = "null"
        THEN internalError(request)
        ELSE IF ~Truthy(verifyBody.isValid)
        THEN rejectPayment(request, errorMsg)
        ELSE CarriedHeaders(request, x402Config,
                            OrElse(verifyBody.transaction, "unknown"),
                            OrElse(verifyBody.payer, "anonymous"))

\* variant: X-Payment-Tx is the facilitator's field with no "unknown" fallback
verifyPaymentEnd_noSentinel(request, x402Config, reply) ==
    LET verificationResult == callFacilitator(reply)
        verifyBody == verificationResult.data
        errorMsg == OrElse(verifyBody.error, OrElse(verifyBody.message, "Payment not valid"))
    IN  IF verificationResult.threw
        THEN internalError(request)
        ELSE IF ~verificationResult.success
        THEN rejectPayment(request, verificationResult.error)
        ELSE IF verifyBody.kind = "null"
        THEN internalError(request)
        ELSE IF ~Truthy(verifyBody.isValid)
        THEN rejectPayment(request, errorMsg)
        ELSE CarriedHeaders(request, x402Config,
                            verifyBody.transaction,
                            OrElse(verifyBody.payer, "anonymous"))

\* variant: the carried headers are written before the verdict is looked at
verifyPaymentEnd_carriedBeforeVerdict(request, x402Config, reply) ==
    LET verificationResult == callFacilitator(reply)
        verifyBody == verificationResult.data
        errorMsg == OrElse(verifyBody.error, OrElse(verifyBody.message, "Payment not valid"))
        marked == CarriedHeaders(request, x402Config,
                                 OrElse(verifyBody.transaction, "unknown"),
                                 OrElse(verifyBody.payer, "anonymous"))
    IN  IF verificationResult.threw
        THEN internalError(request)
        ELSE IF ~verificationResult.success
        THEN rejectPayment(request, verificationResult.error)
        ELSE IF verifyBody.kind = "null"
        THEN internalError(request)
        ELSE IF ~Truthy(verifyBody.isValid)
        THEN rejectPayment(marked, errorMsg)
        ELSE marked

\* verifyPayment from the facilitator's reply on (x402_payment.js 138-174)
verifyPaymentEnd(request, x402Config, reply) ==
    LET verificationResult == callFacilitator(reply)
        verifyBody == verificationResult.data
        errorMsg == OrElse(verifyBody.error, OrElse(verifyBody.message, "Payment not valid"))
    IN  IF verificationResult.threw
        THEN internalError(request)
        ELSE IF ~verificationResult.success
        THEN rejectPayment(request, verificationResult.error)
        ELSE IF verifyBody.kind = "null"
        THEN internalError(request)
        ELSE IF ~Truthy(verifyBody.isValid)
        THEN rejectPayment(request, errorMsg)
        ELSE CarriedHeaders(request, x402Config,
                            OrElse(verifyBody.transaction, "unknown"),
                            OrElse(verifyBody.payer, "anonymous"))

\* settlePayment from the facilitator's reply on (x402_payment.js 233-244):
\* TRUE when an exception leaves the function
settlePaymentThrows(reply) ==
    LET settleResult == callFacilitator(reply)
    IN  settleResult.threw \/ (settleResult.success /\ settleResult.data.kind = "null")

\* variant: no try/catch around settlePayment, a fault becomes an error response
handleSettlementEnd_noCatch(request, reply) ==
    IF settlePaymentThrows(reply)
    THEN internalError(request)
    ELSE request

\* handleSettlement from the facilitator's reply on (x402_payment.js 202-210):
\* the catch block swallows the exception; either way ReturnData(request, {})
handleSettlementEnd(request, reply) ==
    IF settlePaymentThrows(reply)
    THEN request
    ELSE request

(***************************************************************************)
(* Inputs: what a client may send and what the facilitator may answer.     *)
(***************************************************************************)
URLs == {"/market/crypto/bitcoin", "/stocks/daily/AAPL", "/content/posts",
         "/bare", "/market/crypto"}
Methods == {"GET", "POST"}

ProofNames == {"X-Payment-x402", "X-Payment-X402", "x-payment-x402", "X-Payment"}

ProofValues ==
    {List(<<>>), List(<<"">>), Scalar(""), List(<<"not-json">>), List(<<"null">>),
     List(<<"{}">>), List(<<ProofTX1>>), Scalar(ProofTX1), List(<<ProofPL1>>),
     List(<<ProofFull>>)}

\* headers a client can add on its own that look like carried metadata
CarriedProfiles ==
    {NoHeaders,
     [NoHeaders EXCEPT !["X-Payment-Valid"] = List(<<"true">>)],
     [NoHeaders EXCEPT !["X-Payment-Valid"] = List(<<"true">>),
                       !["X-Payment-Tx"] = List(<<"unknown">>)],
     [NoHeaders EXCEPT !["X-Payment-Valid"] = List(<<"true">>),
                       !["X-Payment-Tx"] = List(<<"FORGED_TX">>),
                       !["X-Payment-Network"] = List(<<"solana-devnet">>),
                       !["X-Payment-Amount"] = List(<<"100">>),
                       !["X-Payment-Token"] = List(<<"TOKEN_MINT">>),
                       !["X-Payment-Recipient"] = List(<<"MALLORY">>)],
     [NoHeaders EXCEPT !["X-Payment-Valid"] = List(<<"true">>),
                       !["X-Payment-Tx"] = Scalar("FORGED_TX")],
     [NoHeaders EXCEPT !["X-Payment-Valid"] = Scalar("true"),
                       !["X-Payment-Tx"] = List(<<"FORGED_TX">>)],
     [NoHeaders EXCEPT !["X-Payment-Valid"] = List(<<"false">>),
                       !["X-Payment-Tx"] = List(<<"FORGED_TX">>)],
     [NoHeaders EXCEPT !["X-Payment-Network"] = List(<<"ethereum">>),
                       !["X-Payment-Amount"] = List(<<"100">>)]}

\* every proof value under every name, and every carried-header profile with
\* no proof, a non-JSON proof and a well-formed proof
ClientHeaders ==
    CarriedProfiles
        \cup {[NoHeaders EXCEPT ![n] = v] : n \in ProofNames, v \in ProofValues}
        \cup {[c EXCEPT !["X-Payment-x402"] = v] :
                  c \in CarriedProfiles, v \in {List(<<"not-json">>), List(<<ProofTX1>>)}}

\* the proof transactions whose reuse across requests is followed
FollowedTransactions == {"TX1"}

Signatures == {Undefined, "SIG123", "SIG456"}

ValidBodies ==
    {ObjBody(JSTrue, tx, payer, Undefined, Undefined, Undefined) :
        tx \in Signatures, payer \in {Undefined, "PAYER1"}}

InvalidBodies ==
    {ObjBody(iv, Undefined, Undefined, err, msg, Undefined) :
        iv \in {JSFalse, Undefined},
        err \in {Undefined, "", "insufficient amount"},
        msg \in {Undefined, "wrong recipient"}}

SettledBodies ==
    {ObjBody(Undefined, Undefined, Undefined, Undefined, Undefined, "SETTLE_SIG")}

BrokenReplies ==
    {Reply(k, 0, NoBody) : k \in {"throw", "none", "text", "null", "prim"}}
        \cup {Reply("env", 0, b) : b \in {NoBody, NullBody}}
        \cup {Reply("env", 500, TextBody("Internal Server Error")),
              Reply("env", 400, TextBody("Invalid payment"))}
        \cup {Reply("env", 200, b) : b \in {NoBody, TextBody("not json"), NullBody, PrimBody}}

\* answers to /v1/verify
Replies ==
    BrokenReplies
        \cup {Reply("env", 201, b) : b \in ValidBodies}
        \cup {Reply("env", 200, b) : b \in ValidBodies \cup InvalidBodies}

\* answers to /v1/settle
SettleReplies ==
    BrokenReplies
        \cup {Reply("env", 201, b) : b \in SettledBodies}
        \cup {Reply("env", 200, b) : b \in SettledBodies \cup
                    {ObjBody(Undefined, Undefined, Undefined, "already settled",
                             Undefined, Undefined)}}

\* requests in flight at the same time, and what they may send and get
MaxConcurrent == 2
Slots == 1..MaxConcurrent

ConcClients ==
    {NewRequest(url, "GET", [NoHeaders EXCEPT !["X-Payment-x402"] = v]) :
        url \in {"/market/crypto/bitcoin", "/stocks/daily/AAPL"},
        v \in {Absent, List(<<ProofTX1>>)}}

ConcReplies ==
    {Reply("env", 200, ObjBody(JSTrue, "SIG123", "PAYER1", Undefined, Undefined, Undefined)),
     Reply("env", 200, ObjBody(JSTrue, "SIG456", Undefined, Undefined, Undefined, Undefined)),
     Reply("env", 200, ObjBody(JSFalse, Undefined, Undefined, "insufficient amount",
                               Undefined, Undefined))}

ConcSettleReplies == {Reply("env", 200, b) : b \in SettledBodies}

(***************************************************************************)
(* State                                                                   *)
(***************************************************************************)
VARIABLES
    pc,         \* where the logical request is: "idle", "invoke", "http", "returned", "done"
    phase,      \* which middleware array the host is running: "pre" or "post"
    client,     \* the request as the client sent it
    request,    \* the request object of the current handler invocation
    pending,    \* the handler's position while blocked in TykMakeHttpRequest
    calls,      \* facilitator requests issued for this logical request, in order
    events,     \* what happened to this logical request, in order
    response,   \* what the client is answered (ResponseCode 0: nothing yet)
    httpReply,  \* what TykMakeHttpRequest returned to the current invocation
    waited,     \* milliseconds the current invocation has been blocked in TykMakeHttpRequest
    session,    \* the session object the host hands to every invocation
    allowed,    \* history: proof transactions on which earlier requests were served
    conc        \* requests the host is serving at the same time, one per slot

vars == <<pc, phase, client, request, pending, calls, events, response, httpReply, waited, session, allowed, conc>>

\* an entry of `events`: "/v1/verify" and "/v1/settle" (the call was issued, tx
\* is the transaction it carries), "verify-reply" (the verify call returned
\* `reply`), "settle-reply" (the settle call returned), "resource" (upstream
\* accessed), "answered" (override sent)
NoReply == Reply("", 0, NoBody)
Event(type, tx, reply) == [type |-> type, tx |-> tx, reply |-> reply]

NotPending == Http(NewRequest("", "", NoHeaders), NoCall, NoX402)

\* a slot with no request in it, and the host with no request in flight
IdleSlot ==
    [pc |-> "idle", phase |-> "pre", client |-> NewRequest("", "", NoHeaders),
     request |-> NewRequest("", "", NoHeaders), pending |-> NotPending,
     calls |-> <<>>, reply |-> NoReply, response |-> NoOverrides]

NoneInFlight == [slots |-> [i \in Slots |-> IdleSlot], last |-> 1]

UpstreamBody == [NoError EXCEPT !.message = "upstream content"]
UpstreamResponse ==
    [ResponseCode |-> 200, ResponseError |-> UpstreamBody, ResponseHeaders |-> {}]

Init ==
    /\ pc = "idle"
    /\ phase = "pre"
    /\ client = NewRequest("", "", NoHeaders)
    /\ request = NewRequest("", "", NoHeaders)
    /\ pending = NotPending
    /\ calls = <<>>
    /\ events = <<>>
    /\ response = NoOverrides
    /\ httpReply = NoReply
    /\ waited = 0
    /\ session \in Sessions
    /\ allowed = {}
    /\ conc = NoneInFlight

\* the handler was entered with `req` and ran to its return or to the HTTP call
Enter(req) ==
    LET r == NewProcessRequest(req, session.config_data)
    IN  /\ httpReply' = NoReply
        /\ waited' = 0
        /\ IF r.tag = "return"
           THEN /\ pc' = "returned"
                /\ request' = r.request
                /\ pending' = NotPending
                /\ calls' = calls
                /\ events' = events
           ELSE /\ pc' = "http"
                /\ request' = r.request
                /\ pending' = r
                /\ calls' = Append(calls, r.call)
                /\ events' = Append(events, Event(r.call.endpoint,
                       IF r.call.endpoint = "/v1/settle"
                       THEN r.call.transaction ELSE r.call.ppTransaction, NoReply))

\* a client sends a request
ClientSend ==
    /\ pc = "idle"
    /\ \E url \in URLs, method \in Methods, headers \in ClientHeaders :
          client' = NewRequest(url, method, headers)
    /\ pc' = "invoke"
    /\ phase' = "pre"
    /\ request' = NewRequest("", "", NoHeaders)
    /\ pending' = NotPending
    /\ calls' = <<>>
    /\ events' = <<>>
    /\ response' = NoOverrides
    /\ httpReply' = NoReply
    /\ waited' = 0
    /\ UNCHANGED session
    /\ UNCHANGED allowed
    /\ UNCHANGED conc

\* the host runs the "pre" middleware array on the client's request
PreInvoke ==
    /\ pc = "invoke" /\ phase = "pre"
    /\ Enter(client)
    /\ UNCHANGED <<phase, client, response>>
    /\ UNCHANGED session
    /\ UNCHANGED allowed
    /\ UNCHANGED conc

\* the facilitator has not answered yet: the handler stays blocked in
\* TykMakeHttpRequest, which callFacilitator calls without any time limit
Wait ==
    /\ pc = "http"
    /\ waited < MaxWait * FACILITATOR_TIMEOUT
    /\ waited' = waited + FACILITATOR_TIMEOUT
    /\ UNCHANGED <<pc, phase, client, request, pending, calls, events, response, httpReply>>
    /\ UNCHANGED session
    /\ UNCHANGED allowed
    /\ UNCHANGED conc

\* TykMakeHttpRequest returns to callFacilitator("/v1/verify", ...)
VerifyReturns ==
    /\ pc = "http" /\ pending.call.endpoint = "/v1/verify"
    /\ \E reply \in Replies :
          /\ request' = verifyPaymentEnd(pending.request, pending.x402Config, reply)
          /\ events' = Append(events, Event("verify-reply", Undefined, reply))
          /\ httpReply' = reply
    /\ pc' = "returned"
    /\ pending' = NotPending
    /\ waited' = 0
    /\ UNCHANGED <<phase, client, calls, response>>
    /\ UNCHANGED session
    /\ UNCHANGED allowed
    /\ UNCHANGED conc

\* TykMakeHttpRequest returns to callFacilitator("/v1/settle", ...)
SettleReturns ==
    /\ pc = "http" /\ pending.call.endpoint = "/v1/settle"
    /\ \E reply \in SettleReplies :
          /\ request' = handleSettlementEnd(pending.request, reply)
          /\ httpReply' = reply
    /\ events' = Append(events, Event("settle-reply", Undefined, NoReply))
    /\ pc' = "returned"
    /\ pending' = NotPending
    /\ waited' = 0
    /\ UNCHANGED <<phase, client, calls, response>>
    /\ UNCHANGED session
    /\ UNCHANGED allowed
    /\ UNCHANGED conc

\* the pre handler set a response override: the host answers with it and stops
HostOverride ==
    /\ pc = "returned" /\ phase = "pre"
    /\ request.ReturnOverrides.ResponseCode # 0
    /\ response' = request.ReturnOverrides
    /\ pc' = "done"
    /\ events' = Append(events, Event("answered", Undefined, NoReply))
    /\ UNCHANGED <<phase, client, request, pending, calls, httpReply, waited>>
    /\ UNCHANGED session
    /\ UNCHANGED allowed
    /\ UNCHANGED conc

\* no override: the host applies SetHeaders, proxies to the upstream resource
\* and sends its response; the "post" array is next
HostProxy ==
    /\ pc = "returned" /\ phase = "pre"
    /\ request.ReturnOverrides.ResponseCode = 0
    /\ response' = UpstreamResponse
    /\ events' = Append(events, Event("resource", Undefined, NoReply))
    /\ pc' = "invoke"
    /\ phase' = "post"
    /\ UNCHANGED <<client, request, pending, calls, httpReply, waited>>
    /\ UNCHANGED session
    /\ UNCHANGED allowed
    /\ UNCHANGED conc

\* the headers the post invocation sees: the request's own, overwritten by
\* what the pre handler put in SetHeaders
EchoedHeaders ==
    [h \in HeaderNames |->
        IF request.SetHeaders[h] # Undefined
        THEN List(<<request.SetHeaders[h]>>)
        ELSE request.Headers[h]]

\* the same headers when the values set by the pre handler arrive as single
\* strings, the other form getHeaderValue reads; the flag stays the list the
\* phase test indexes
EchoedScalars ==
    [h \in HeaderNames |->
        IF request.SetHeaders[h] # Undefined /\ h # "X-Payment-Valid"
        THEN Scalar(request.SetHeaders[h])
        ELSE EchoedHeaders[h]]

\* the host runs the "post" middleware array
PostInvoke ==
    /\ pc = "invoke" /\ phase = "post"
    /\ \E headers \in {EchoedHeaders, EchoedScalars} :
          Enter(NewRequest(request.URL, request.Method, headers))
    /\ UNCHANGED <<phase, client, response>>
    /\ UNCHANGED session
    /\ UNCHANGED allowed
    /\ UNCHANGED conc

\* the post handler returned: an override it set would replace the response
HostFinish ==
    /\ pc = "returned" /\ phase = "post"
    /\ response' = IF request.ReturnOverrides.ResponseCode # 0
                   THEN request.ReturnOverrides ELSE response
    /\ pc' = "done"
    /\ UNCHANGED <<phase, client, request, pending, calls, events, httpReply, waited>>
    /\ UNCHANGED session
    /\ UNCHANGED allowed
    /\ UNCHANGED conc

\* the proof transaction this request was served on, if it was verified and
\* served and the transaction is one the history follows
ServedOn ==
    IF /\ calls # <<>> /\ calls[1].endpoint = "/v1/verify"
       /\ \E i \in DOMAIN events : events[i].type = "resource"
    THEN {calls[1].ppTransaction} \cap FollowedTransactions
    ELSE {}

\* the logical request is over; the host discards its request objects
RequestEnds ==
    /\ pc = "done"
    /\ pc' = "idle"
    /\ phase' = "pre"
    /\ client' = NewRequest("", "", NoHeaders)
    /\ request' = NewRequest("", "", NoHeaders)
    /\ pending' = NotPending
    /\ calls' = <<>>
    /\ events' = <<>>
    /\ response' = NoOverrides
    /\ httpReply' = NoReply
    /\ waited' = 0
    /\ UNCHANGED session
    /\ allowed' = allowed \cup ServedOn
    /\ UNCHANGED conc

Next ==
    \/ ClientSend
    \/ PreInvoke
    \/ Wait
    \/ VerifyReturns
    \/ SettleReturns
    \/ HostOverride
    \/ HostProxy
    \/ PostInvoke
    \/ HostFinish
    \/ RequestEnds

Spec == Init /\ [][Next]_vars

(***************************************************************************)
(* Several requests in flight.  The host enters the handler once per       *)
(* request and phase; an invocation runs until it returns or blocks in     *)
(* TykMakeHttpRequest, and while it is blocked other invocations run.      *)
(* Each slot holds what belongs to one request: the request objects, the   *)
(* activation record of its blocked invocation, its calls and its answer.  *)
(***************************************************************************)
single == <<pc, phase, client, request, pending, calls, events, response,
            httpReply, waited, session, allowed>>

\* the headers the post invocation of a request sees
EchoedHeadersOf(req) ==
    [h \in HeaderNames |->
        IF req.SetHeaders[h] # Undefined
        THEN List(<<req.SetHeaders[h]>>)
        ELSE req.Headers[h]]

\* a slot's handler was entered with `req`
SlotEnter(s, req) ==
    LET r == NewProcessRequest(req, config_data)
    IN  IF r.tag = "return"
        THEN [s EXCEPT !.pc = "returned", !.request = r.request, !.pending = NotPending]
        ELSE [s EXCEPT !.pc = "http", !.request = r.request, !.pending = r,
                       !.calls = Append(@, r.call)]

\* variant: the handler's variables are one set shared by all invocations, so
\* a reply resumes with what the invocation entered last left in them
Resume_lastEntered(c, i) == c.slots[c.last].pending

\* the activation record a reply to slot i's HTTP call resumes: the handler's
\* variables are all declared with var inside its functions
Resume(c, i) == c.slots[i].pending

ConcSend(i) ==
    /\ conc.slots[i].pc = "idle"
    /\ \E cl \in ConcClients :
          conc' = [conc EXCEPT !.slots[i] = [IdleSlot EXCEPT !.pc = "invoke", !.client = cl]]
    /\ UNCHANGED single

ConcInvoke(i) ==
    LET s == conc.slots[i]
        req == IF s.phase = "pre" THEN s.client
               ELSE NewRequest(s.request.URL, s.request.Method, EchoedHeadersOf(s.request))
    IN  /\ s.pc = "invoke"
        /\ conc' = [slots |-> [conc.slots EXCEPT ![i] = SlotEnter(s, req)], last |-> i]
        /\ UNCHANGED single

ConcVerifyReturns(i) ==
    LET s == conc.slots[i]
        p == Resume(conc, i)
    IN  /\ s.pc = "http" /\ s.pending.call.endpoint = "/v1/verify"
        /\ \E reply \in ConcReplies :
              conc' = [conc EXCEPT !.slots[i] =
                          [s EXCEPT !.pc = "returned", !.pending = NotPending,
                                    !.reply = reply,
                                    !.request = verifyPaymentEnd(p.request, p.x402Config, reply)]]
        /\ UNCHANGED single

ConcSettleReturns(i) ==
    LET s == conc.slots[i]
        p == Resume(conc, i)
    IN  /\ s.pc = "http" /\ s.pending.call.endpoint = "/v1/settle"
        /\ \E reply \in ConcSettleReplies :
              conc' = [conc EXCEPT !.slots[i] =
                          [s EXCEPT !.pc = "returned", !.pending = NotPending,
                                    !.request = handleSettlementEnd(p.request, reply)]]
        /\ UNCHANGED single

\* the host acts on what the invocation of slot i returned
ConcHost(i) ==
    LET s == conc.slots[i]
        override == s.request.ReturnOverrides
    IN  /\ s.pc = "returned"
        /\ conc' = [conc EXCEPT !.slots[i] =
                IF override.ResponseCode # 0
                THEN [s EXCEPT !.pc = "done", !.response = override]
                ELSE IF s.phase = "pre"
                THEN [s EXCEPT !.pc = "invoke", !.phase = "post",
                               !.response = UpstreamResponse]
                ELSE [s EXCEPT !.pc = "done"]]
        /\ UNCHANGED single

ConcEnds(i) ==
    /\ conc.slots[i].pc = "done"
    /\ conc' = [conc EXCEPT !.slots[i] = IdleSlot]
    /\ UNCHANGED single

ConcNext ==
    \E i \in Slots :
        \/ ConcSend(i)
        \/ ConcInvoke(i)
        \/ ConcVerifyReturns(i)
        \/ ConcSettleReturns(i)
        \/ ConcHost(i)
        \/ ConcEnds(i)

ConcInit == Init /\ session.config_data = config_data

ConcSpec == ConcInit /\ [][ConcNext]_vars

(***************************************************************************)
(* Vocabulary of the properties                                            *)
(***************************************************************************)
Last(seq) == seq[Len(seq)]

\* the x402 requirement configured for exactly this path and method, if any
HasRequirement(url, method) ==
    /\ session.config_data.hasPaths
    /\ url \in DOMAIN session.config_data.paths
    /\ toLowerCase(method) \in DOMAIN session.config_data.paths[url]
    /\ session.config_data.paths[url][toLowerCase(method)].hasX402

RequirementOf(url, method) == session.config_data.paths[url][toLowerCase(method)].x402

ClientMetered == HasRequirement(client.URL, client.Method)

\* the client sent no payment proof under any spelling of the header
ClientSentNoProof == \A n \in ProofNames : client.Headers[n] = Absent

\* the facilitator answered 200 with a JSON object as body
DecodedObject(reply) ==
    reply.kind = "env" /\ reply.Code = 200 /\ reply.Body.kind = "obj"

SaidValid(reply) == DecodedObject(reply) /\ reply.Body.isValid = JSTrue
SaidInvalid(reply) == DecodedObject(reply) /\ reply.Body.isValid = JSFalse

\* the verify call came back without a decoded body: nothing, a non-success
\* status, or an envelope or body that does not decode to a JSON object
NoDecodedBody(reply) ==
    \/ reply.kind \in {"none", "text", "null", "prim"}
    \/ reply.kind = "env" /\ reply.Code # 200
    \/ reply.kind = "env" /\ reply.Code = 200 /\ reply.Body.kind # "obj"

HasText(v) == v \notin {Undefined, Null, ""}

Overridden(req, code, status) ==
    /\ req.ReturnOverrides.ResponseCode = code
    /\ <<"X-Payment-Status", status>> \in req.ReturnOverrides.ResponseHeaders

Answered(code, status) ==
    /\ response.ResponseCode = code
    /\ <<"X-Payment-Status", status>> \in response.ResponseHeaders

\* the pre handler has just returned from a verify call that got `reply`
VerifiedJustNow ==
    /\ pc = "returned" /\ phase = "pre"
    /\ events # <<>> /\ Last(events).type = "verify-reply"

\* the value a header carries, whether it came as a string or as a list
Carried(h) == getHeaderValue(h)

(***************************************************************************)
(* C1: on a metered route the upstream resource is accessed only after a   *)
(* /v1/verify call of the same request came back with isValid true.        *)
(***************************************************************************)
C1_AccessOnlyAfterVerification ==
    \A i \in DOMAIN events :
        (events[i].type = "resource" /\ ClientMetered)
            => \E j \in 1..(i - 1) :
                  events[j].type = "verify-reply" /\ SaidValid(events[j].reply)

(***************************************************************************)
(* C2: a request to a metered route without a proof header is answered     *)
(* 402 with X-Payment-Status required and X-Payment-Required x402, the     *)
(* body shows the configured maxAmountRequired, and the facilitator is     *)
(* not called.                                                             *)
(***************************************************************************)
C2_NoProofAnswered402Required ==
    (pc = "done" /\ ClientMetered /\ ClientSentNoProof)
        => /\ Answered(402, "required")
           /\ <<"X-Payment-Required", "x402">> \in response.ResponseHeaders
           /\ LET configured == RequirementOf(client.URL, client.Method).maxAmountRequired
              IN  configured # Undefined =>
                    response.ResponseError.paymentRequirements.maxAmountRequired = configured
           /\ calls = <<>>

(***************************************************************************)
(* C3: when the /v1/verify call yields no decoded body the request is      *)
(* answered 402 with X-Payment-Status invalid: never 500, never the        *)
(* resource.                                                               *)
(***************************************************************************)
C3_VerifyFailClosed402 ==
    \A i \in DOMAIN events :
        (events[i].type = "verify-reply" /\ NoDecodedBody(events[i].reply))
            => /\ \A j \in DOMAIN events : events[j].type # "resource"
               /\ phase = "pre"
               /\ pc = "returned" => Overridden(request, 402, "invalid")
               /\ pc = "done" => Answered(402, "invalid")

(***************************************************************************)
(* C4: a /v1/verify response with isValid false is answered 402 "Payment   *)
(* Invalid" with X-Payment-Status invalid; the message is the              *)
(* facilitator's error field if it has one, else its message field, else   *)
(* the fixed fallback text.                                                *)
(***************************************************************************)
C4_InvalidVerdictRejected ==
    (VerifiedJustNow /\ SaidInvalid(Last(events).reply))
        => LET body == Last(events).reply.Body
           IN  /\ Overridden(request, 402, "invalid")
               /\ request.ReturnOverrides.ResponseError.error = "Payment Invalid"
               /\ request.ReturnOverrides.ResponseError.message =
                     (IF HasText(body.error) THEN body.error
                      ELSE IF HasText(body.message) THEN body.message
                      ELSE "Payment not valid")
               /\ request.SetHeaders = NoSetHeaders

C4_Witness ==
    /\ VerifiedJustNow /\ SaidInvalid(Last(events).reply)
    /\ Last(events).reply.Body.error = "insufficient amount"
    /\ Last(events).reply.Body.message = "wrong recipient"
    /\ request.ReturnOverrides.ResponseError.message = "insufficient amount"

(***************************************************************************)
(* C5: a /v1/verify response with isValid true makes verification set      *)
(* X-Payment-Valid to "true" and X-Payment-Tx to the reported transaction  *)
(* ("unknown" when none is reported), set no override, and the request     *)
(* goes on to the resource.                                                *)
(***************************************************************************)
C5_ValidVerdictCarried ==
    /\ (VerifiedJustNow /\ SaidValid(Last(events).reply))
          => LET body == Last(events).reply.Body
             IN  /\ request.SetHeaders["X-Payment-Valid"] = "true"
                 /\ request.SetHeaders["X-Payment-Tx"] =
                       (IF HasText(body.transaction) THEN body.transaction ELSE "unknown")
                 /\ request.ReturnOverrides = NoOverrides
                 /\ ENABLED HostProxy
                 /\ ~ENABLED HostOverride
    /\ (pc = "done" /\ \E i \in DOMAIN events :
                          events[i].type = "verify-reply" /\ SaidValid(events[i].reply))
          => /\ \E j \in DOMAIN events : events[j].type = "resource"
             /\ response = UpstreamResponse

C5_Witness ==
    /\ VerifiedJustNow /\ SaidValid(Last(events).reply)
    /\ Last(events).reply.Body.transaction = Undefined
    /\ request.SetHeaders["X-Payment-Tx"] = "unknown"

(***************************************************************************)
(* C6: a request to a metered route whose proof header is not JSON is      *)
(* answered 402 with X-Payment-Status invalid and the facilitator is not   *)
(* called.                                                                 *)
(***************************************************************************)
C6_NonJsonProofRejectedUncalled ==
    (pc = "done" /\ ClientMetered
        /\ client.Headers["X-Payment-x402"] = List(<<"not-json">>))
        => /\ Answered(402, "invalid")
           /\ calls = <<>>

(***************************************************************************)
(* C7: whatever the /v1/settle call yields, the settlement handler sets    *)
(* no response code, body or headers and no carried headers, and the       *)
(* response the client got stays as it was.                                *)
(***************************************************************************)
C7_SettlementNonInterference ==
    [][ /\ (pc = "http" /\ pending.call.endpoint = "/v1/settle")
            => /\ request'.ReturnOverrides = NoOverrides
               /\ request'.SetHeaders = NoSetHeaders
               /\ request'.Headers = pending.request.Headers
               /\ response' = response
        /\ (pc = "returned" /\ phase = "post" /\ isPostPhase(request))
            => response' = response ]_vars

C7_Witness ==
    /\ pc = "done" /\ phase = "post"
    /\ httpReply.kind = "throw"
    /\ Last(events).type = "settle-reply"
    /\ response = UpstreamResponse
    /\ \E i \in DOMAIN events : events[i].type = "verify-reply"

(***************************************************************************)
(* C8: a /v1/settle call for transaction T is preceded, in the same        *)
(* logical request, by a /v1/verify response with isValid true that        *)
(* reported T.                                                             *)
(***************************************************************************)
C8_SettleOnlyVerifiedTransaction ==
    \A i \in DOMAIN events :
        events[i].type = "/v1/settle"
            => \E j \in 1..(i - 1) :
                  /\ events[j].type = "verify-reply"
                  /\ SaidValid(events[j].reply)
                  /\ events[j].reply.Body.transaction = events[i].tx

(***************************************************************************)
(* C9: an invocation whose request headers do not carry X-Payment-Valid    *)
(* equal to "true" issues no /v1/settle call.                              *)
(***************************************************************************)
C9_NoSettleWithoutValidFlag ==
    [][ (Len(calls') > Len(calls) /\ Last(calls').endpoint = "/v1/settle")
            => Carried(request'.Headers["X-Payment-Valid"]) = "true" ]_vars

C9_Witness ==
    /\ pc = "returned"
    /\ request.Headers["X-Payment-Valid"] = List(<<"false">>)
    /\ request.Headers["X-Payment-Tx"] = List(<<"FORGED_TX">>)
    /\ calls = <<>>

(***************************************************************************)
(* C10: when X-Payment-Tx is missing or is "unknown", the settlement       *)
(* handler calls no facilitator endpoint and returns with the response     *)
(* state untouched.                                                        *)
(***************************************************************************)
C10_SettlementSkipped ==
    [][ (pc = "invoke" /\ pc' # "invoke" /\ isPostPhase(request')
            /\ (~HasText(Carried(request'.Headers["X-Payment-Tx"]))
                    \/ Carried(request'.Headers["X-Payment-Tx"]) = "unknown"))
            => /\ pc' = "returned"
               /\ calls' = calls
               /\ request'.ReturnOverrides = NoOverrides
               /\ request'.SetHeaders = NoSetHeaders
               /\ response' = response ]_vars

C10_Witness ==
    /\ pc = "returned" /\ phase = "post"
    /\ request.Headers["X-Payment-Valid"] = List(<<"true">>)
    /\ request.Headers["X-Payment-Tx"] = List(<<"unknown">>)
    /\ Len(calls) = 1 /\ calls[1].endpoint = "/v1/verify"
    /\ Last(events).type = "resource"

(***************************************************************************)
(* C11: after a verification that was allowed with a reported transaction  *)
(* T, once the post phase has run on the echoed headers there is exactly   *)
(* one /v1/settle call, it carries T, and it comes after the resource.     *)
(***************************************************************************)
C11_SettledOnceAfterResource ==
    \A i \in DOMAIN events :
        (/\ events[i].type = "verify-reply" /\ SaidValid(events[i].reply)
         /\ HasText(events[i].reply.Body.transaction)
         /\ events[i].reply.Body.transaction # "unknown"
         /\ phase = "post" /\ pc # "invoke")
            => LET settles == {k \in DOMAIN events : events[k].type = "/v1/settle"}
               IN  /\ Cardinality(settles) = 1
                   /\ \A k \in settles :
                         /\ events[k].tx = events[i].reply.Body.transaction
                         /\ \E r \in (i + 1)..(k - 1) : events[r].type = "resource"

C11_Witness ==
    /\ pc = "done" /\ phase = "post"
    /\ \E i \in DOMAIN events :
          /\ events[i].type = "verify-reply"
          /\ SaidValid(events[i].reply)
          /\ events[i].reply.Body.transaction = "SIG123"
    /\ Len(calls) = 2 /\ calls[2].endpoint = "/v1/settle"
    /\ calls[2].transaction = "SIG123"

(***************************************************************************)
(* C12: on a route without a payment requirement (no path entry, no method *)
(* entry, or an entry without x402) verification passes the request        *)
(* through: it sets no carried header and no override, /v1/verify is never *)
(* called, and an invocation that runs verification calls no facilitator   *)
(* endpoint, whatever the proof header holds.                              *)
(***************************************************************************)
SentAsValid(req) ==
    /\ req.Headers["X-Payment-Valid"].kind = "list"
    /\ Len(req.Headers["X-Payment-Valid"].v) > 0
    /\ req.Headers["X-Payment-Valid"].v[1] = "true"

C12_UnmeteredPassesThrough ==
    (client.URL # "" /\ ~ClientMetered)
        => /\ request.SetHeaders = NoSetHeaders
           /\ request.ReturnOverrides = NoOverrides
           /\ \A k \in DOMAIN calls : calls[k].endpoint # "/v1/verify"
           /\ ~SentAsValid(client) => (calls = <<>> /\ pc # "http")
           /\ pc = "done" => response = UpstreamResponse

C12_Witness ==
    /\ pc = "done"
    /\ client.URL = "/content/posts" /\ client.Method = "GET"
    /\ client.Headers["X-Payment-x402"] = List(<<ProofTX1>>)
    /\ response = UpstreamResponse
    /\ calls = <<>>

(***************************************************************************)
(* C13: when verification ends in an internal fault (the HTTP call throws, *)
(* the reply or its body is JSON null, the proof is JSON null) the         *)
(* response is 500 with the fixed body and only the Content-Type header;   *)
(* every 500 is that same response, so runs that differ in the fault       *)
(* cannot be told apart by the client.                                     *)
(***************************************************************************)
FixedInternalError ==
    [ResponseCode |-> 500,
     ResponseError |->
        [NoError EXCEPT !.error = "Internal Server Error",
                        !.message = "Payment verification failed due to internal error"],
     ResponseHeaders |-> {<<"Content-Type", "application/json">>}]

\* the exception verifyPayment's try block meets after this verify reply
VerifyFault(reply) ==
    \/ reply.kind \in {"throw", "null"}
    \/ reply.kind = "env" /\ reply.Code = 200 /\ reply.Body.kind = "null"

C13_InternalFaultFixed500 ==
    /\ (VerifiedJustNow /\ VerifyFault(Last(events).reply))
          => request.ReturnOverrides = FixedInternalError
    /\ (pc = "returned" /\ phase = "pre" /\ ClientMetered /\ ~SentAsValid(client)
          /\ client.Headers["X-Payment-x402"] = List(<<"null">>))
          => request.ReturnOverrides = FixedInternalError
    /\ request.ReturnOverrides.ResponseCode = 500
          => request.ReturnOverrides = FixedInternalError
    /\ response.ResponseCode = 500 => response = FixedInternalError

C13_Witness ==
    /\ pc = "done"
    /\ response = FixedInternalError
    /\ httpReply.kind = "throw"

(***************************************************************************)
(* C14: once verification has ended with a rejection (402) or an internal  *)
(* fault (500) the request is answered with that response, the upstream    *)
(* resource is not accessed, the post phase does not run and no further    *)
(* facilitator call is made for the request.                               *)
(***************************************************************************)
VerificationRefused ==
    /\ phase = "pre" /\ pc \in {"returned", "done"}
    /\ request.ReturnOverrides.ResponseHeaders # {}

C14_RefusedIsFinal ==
    [][VerificationRefused
        => /\ request.ReturnOverrides.ResponseCode \in {402, 500}
           /\ \A i \in DOMAIN events : events[i].type # "resource"
           /\ pc' # "idle"
                => /\ calls' = calls
                   /\ phase' = "pre"
                   /\ pc' = "done"
                   /\ response' = request.ReturnOverrides
                   /\ \A i \in DOMAIN events' : events'[i].type # "resource"]_vars

C14_Witness ==
    /\ pc = "done" /\ phase = "pre"
    /\ response.ResponseCode = 402
    /\ Len(calls) = 1 /\ calls[1].endpoint = "/v1/verify"
    /\ Last(events).type = "answered"

(***************************************************************************)
(* C15: a proof header whose text is not a payment proof (not JSON, a JSON *)
(* value that is not an object such as null, an object without a           *)
(* transaction) is answered 402 with X-Payment-Status invalid: never 500,  *)
(* never allowed.                                                          *)
(***************************************************************************)
MalformedProofTexts == {"not-json", "null", "{}"}

C15_MalformedProofRejected ==
    (/\ phase = "pre" /\ pc \in {"returned", "done"}
     /\ ClientMetered /\ ~SentAsValid(client)
     /\ \E t \in MalformedProofTexts : client.Headers["X-Payment-x402"] = List(<<t>>))
        => Overridden(request, 402, "invalid")

(***************************************************************************)
(* C16: a proof header that is present but empty (the empty string, an     *)
(* empty list, a list holding only the empty string) is answered like a    *)
(* missing one: 402 with X-Payment-Status required and the requirements,   *)
(* without a facilitator call.                                             *)
(***************************************************************************)
EmptyProofValues == {Scalar(""), List(<<>>), List(<<"">>)}

C16_EmptyProofIsRequired ==
    (/\ phase = "pre" /\ pc \in {"returned", "done"}
     /\ ClientMetered /\ ~SentAsValid(client)
     /\ client.Headers["X-Payment-x402"] \in EmptyProofValues)
        => /\ Overridden(request, 402, "required")
           /\ request.ReturnOverrides.ResponseError.paymentRequirements.payTo
                 = RequirementOf(client.URL, client.Method).payTo
           /\ calls = <<>>

(***************************************************************************)
(* C17: the facilitator client classifies by status range: a reply with    *)
(* any 2xx status and a decodable body is a success carrying that body (a  *)
(* body saying isValid true is then allowed), and the status failure is    *)
(* reported exactly for a status outside 200..299.                         *)
(***************************************************************************)
StatusFailure(reply) ==
    "Facilitator returned status " \o ToString(reply.Code) \o ": " \o reply.Body.raw

C17_SuccessIsAny2xx ==
    (VerifiedJustNow /\ Last(events).reply.kind = "env" /\ Last(events).reply.Code # 0)
        => LET reply == Last(events).reply
           IN  /\ (reply.Code \in 200..299 /\ reply.Body.kind = "obj"
                     /\ reply.Body.isValid = JSTrue)
                     => /\ request.SetHeaders["X-Payment-Valid"] = "true"
                        /\ request.ReturnOverrides = NoOverrides
               /\ (request.ReturnOverrides.ResponseError.message = StatusFailure(reply))
                     <=> reply.Code \notin 200..299

(***************************************************************************)
(* C18: callFacilitator is total: whatever string the HTTP call returns    *)
(* (nothing, text that is not JSON, JSON that is not an object such as     *)
(* null, an envelope without Code, a non-200 Code, an undecodable or a     *)
(* decodable Body) it returns a result and does not throw, and success is  *)
(* true only with the decoded body as data.                                *)
(***************************************************************************)
C18_CallFacilitatorTotal ==
    (httpReply # NoReply /\ httpReply.kind # "throw")
        => /\ ~callFacilitator(httpReply).threw
           /\ callFacilitator(httpReply).success
                 => /\ JSONparseBody(httpReply.Body).ok
                    /\ callFacilitator(httpReply).data = JSONparseBody(httpReply.Body).data

(***************************************************************************)
(* C19: single attempt, no retries: an invocation of the handler issues at *)
(* most one facilitator request, and a logical request (pre phase plus     *)
(* post phase) sees at most one /v1/verify call and at most one /v1/settle *)
(* call, whatever the facilitator answers.                                 *)
(***************************************************************************)
CallsTo(endpoint) == {k \in DOMAIN calls : calls[k].endpoint = endpoint}

C19_SingleAttempt ==
    /\ phase = "pre" => Len(calls) <= 1
    /\ Len(calls) <= 2
    /\ Cardinality(CallsTo("/v1/verify")) <= 1
    /\ Cardinality(CallsTo("/v1/settle")) <= 1

(***************************************************************************)
(* C20: the wait for the facilitator is bounded: the call is given a time  *)
(* limit, and when the facilitator stays silent the call ends as a         *)
(* transport failure, so the handler is never still blocked once more than *)
(* the time limit has passed.                                              *)
(***************************************************************************)
C20_BoundedFacilitatorWait ==
    pc = "http" => waited <= FACILITATOR_TIMEOUT

(***************************************************************************)
(* C21: a pre-phase invocation ends in exactly one of four ways: no        *)
(* override (the request passes to the upstream), 402 payment required,    *)
(* 402 payment invalid, or the 500 internal fault; no other response code  *)
(* is set, and a fault inside the handler ends as that 500, never outside. *)
(***************************************************************************)
PassedThrough(req) == req.ReturnOverrides = NoOverrides

PaymentRequired(req) ==
    /\ Overridden(req, 402, "required")
    /\ req.ReturnOverrides.ResponseError.error = "Payment Required"

PaymentInvalid(req) ==
    /\ Overridden(req, 402, "invalid")
    /\ req.ReturnOverrides.ResponseError.error = "Payment Invalid"

InternalFault(req) == req.ReturnOverrides = FixedInternalError

C21_FourOutcomes ==
    (pc = "returned" /\ phase = "pre")
        => /\ Cardinality({o \in {"pass", "required", "invalid", "fault"} :
                             \/ o = "pass" /\ PassedThrough(request)
                             \/ o = "required" /\ PaymentRequired(request)
                             \/ o = "invalid" /\ PaymentInvalid(request)
                             \/ o = "fault" /\ InternalFault(request)}) = 1
           /\ request.ReturnOverrides.ResponseCode \in {0, 402, 500}
           /\ (httpReply.kind \in {"throw", "null"} /\ ~SentAsValid(client))
                 => InternalFault(request)

C21_Witness ==
    /\ pc = "returned" /\ phase = "pre"
    /\ InternalFault(request)
    /\ httpReply.kind = "null"
    /\ Len(calls) = 1

(***************************************************************************)
(* C22: the proof header name is case-insensitive: a well-formed proof     *)
(* sent under another casing of X-Payment-x402 (X-Payment-X402,            *)
(* x-payment-x402) is read like the same proof under X-Payment-x402, that  *)
(* is, it is sent to /v1/verify and not answered 402 payment required.     *)
(***************************************************************************)
ProofCasings == {"X-Payment-x402", "X-Payment-X402", "x-payment-x402"}

\* the pre invocation read the proof TX1 and asked the facilitator about it
ProofTX1Verified ==
    /\ Len(calls) = 1
    /\ calls[1].endpoint = "/v1/verify"
    /\ calls[1].ppTransaction = "TX1"
    /\ ~PaymentRequired(request)

C22_ProofHeaderAnyCasing ==
    \A n \in ProofCasings :
        (/\ phase = "pre" /\ pc \in {"returned", "done"}
         /\ ClientMetered /\ ~SentAsValid(client)
         /\ client.Headers[n] = List(<<ProofTX1>>))
            => ProofTX1Verified

(***************************************************************************)
(* C23: the pre phase takes the payment from the X-Payment request header: *)
(* a request to a metered route with its proof in X-Payment is verified    *)
(* with the facilitator and not answered 402 payment required.             *)
(***************************************************************************)
C23_XPaymentHeaderRead ==
    (/\ phase = "pre" /\ pc \in {"returned", "done"}
     /\ ClientMetered /\ ~SentAsValid(client)
     /\ client.Headers["X-Payment"] = List(<<ProofTX1>>))
        => /\ calls # <<>>
           /\ calls[1].endpoint = "/v1/verify"
           /\ ~Overridden(request, 402, "required")

(***************************************************************************)
(* C24: under the API definition the README documents (config_data holds   *)
(* the x402 requirement directly, no paths mapping) a request without      *)
(* payment is answered 402 payment required with the requirements; it is   *)
(* not passed through unmetered.                                           *)
(***************************************************************************)
C24_ReadmeConfigMeters ==
    (/\ session.config_data = readme_config_data
     /\ pc = "done" /\ ClientSentNoProof /\ ~SentAsValid(client))
        => /\ Answered(402, "required")
           /\ response.ResponseError.paymentRequirements.maxAmountRequired
                 = readme_config_data.x402.maxAmountRequired
           /\ \A i \in DOMAIN events : events[i].type # "resource"

(***************************************************************************)
(* C25: route resolution is exact-match only: verification asks for        *)
(* payment exactly when the configuration has an entry under the request's *)
(* exact path and its method with an x402 requirement; with no path entry, *)
(* no method entry, no x402, or a path or method that matches only in part *)
(* the request proceeds unmetered.  Resolution changes nothing of the      *)
(* request.                                                                *)
(***************************************************************************)
\* the pre invocation asked for payment or looked at one
PaymentDemanded ==
    \/ calls # <<>>
    \/ request.ReturnOverrides # NoOverrides
    \/ request.SetHeaders # NoSetHeaders

C25_ExactRouteMatch ==
    (phase = "pre" /\ pc \in {"http", "returned"} /\ ~SentAsValid(client))
        => /\ PaymentDemanded <=> ClientMetered
           /\ ClientMetered <=>
                 /\ session.config_data = config_data
                 /\ <<client.URL, client.Method>> \in
                        {<<"/market/crypto/bitcoin", "GET">>,
                         <<"/stocks/daily/AAPL", "GET">>,
                         <<"/bare", "GET">>}
           /\ request.URL = client.URL
           /\ request.Method = client.Method
           /\ request.Headers = client.Headers

C25_Witness ==
    /\ pc = "done"
    /\ session.config_data = config_data
    /\ client.URL = "/market/crypto" /\ client.Method = "GET"
    /\ client.Headers["X-Payment-x402"] = List(<<ProofTX1>>)
    /\ calls = <<>>
    /\ response = UpstreamResponse

(***************************************************************************)
(* C26: replay is stopped by tracking transaction signatures: once a       *)
(* request has been served on the strength of a transaction, a later       *)
(* request presenting the same transaction is not served again.            *)
(***************************************************************************)
C26_NoReplay ==
    (/\ calls # <<>> /\ calls[1].endpoint = "/v1/verify"
     /\ calls[1].ppTransaction \in allowed)
        => \A i \in DOMAIN events : events[i].type # "resource"

(***************************************************************************)
(* C27: when the facilitator is down during verification (the HTTP call    *)
(* brings back no response, or fails outright) the request is answered     *)
(* 500 Internal Server Error.                                              *)
(***************************************************************************)
FacilitatorDown(reply) == reply.kind \in {"none", "throw"}

C27_FacilitatorDownIs500 ==
    (VerifiedJustNow /\ FacilitatorDown(Last(events).reply))
        => request.ReturnOverrides.ResponseCode = 500

(***************************************************************************)
(* C28: requests are independent: under every interleaving of the pre and  *)
(* post invocations of concurrent requests, to the same or to different    *)
(* routes, each request's verification outcome, carried metadata and       *)
(* facilitator calls are what they are when that request runs alone with   *)
(* the same facilitator answer; nothing of another request shows in them.  *)
(***************************************************************************)
\* what a request's pre phase gives when it runs alone and the facilitator
\* answers its verify call, if it makes one, with `reply`
AlonePre(cl, reply) ==
    LET r == NewProcessRequest(cl, config_data)
    IN  [calls |-> IF r.tag = "http" THEN <<r.call>> ELSE <<>>,
         request |-> IF r.tag = "http"
                     THEN verifyPaymentEnd(r.request, r.x402Config, reply)
                     ELSE r.request]

\* the facilitator call of its post phase, run alone on the echoed headers
AlonePostCalls(cl, reply) ==
    LET pre == AlonePre(cl, reply).request
        r == NewProcessRequest(
                 NewRequest(pre.URL, pre.Method, EchoedHeadersOf(pre)), config_data)
    IN  IF r.tag = "http" THEN <<r.call>> ELSE <<>>

AsAlone(s) ==
    /\ (s.phase = "pre" /\ s.pc \in {"returned", "done"})
          => /\ s.request = AlonePre(s.client, s.reply).request
             /\ s.calls = AlonePre(s.client, s.reply).calls
    /\ (s.phase = "pre" /\ s.pc = "done")
          => s.response = AlonePre(s.client, s.reply).request.ReturnOverrides
    /\ (s.phase = "post" /\ s.pc \in {"http", "returned", "done"})
          => /\ s.calls = AlonePre(s.client, s.reply).calls
                             \o AlonePostCalls(s.client, s.reply)
             /\ s.request.ReturnOverrides = NoOverrides
             /\ s.response = UpstreamResponse

RequirementsFor(url, method) ==
    LET x == RequirementOf(url, method)
    IN  [scheme |-> IF HasText(x.scheme) THEN x.scheme ELSE "exact",
         network |-> IF HasText(x.network) THEN x.network ELSE "solana-devnet",
         description |-> IF HasText(x.description) THEN x.description
                         ELSE "Access to " \o url,
         payTo |-> x.payTo,
         asset |-> x.asset,
         maxAmountRequired |-> IF HasText(x.maxAmountRequired)
                               THEN x.maxAmountRequired ELSE "1000000",
         maxTimeoutSeconds |-> 60]

C29_RequirementsDeterministic ==
    /\ (pc = "returned" /\ phase = "pre" /\ PaymentRequired(request))
          => request.ReturnOverrides.ResponseError.paymentRequirements
                = RequirementsFor(client.URL, client.Method)
    /\ Answered(402, "required")
          => response.ResponseError.paymentRequirements
                = RequirementsFor(client.URL, client.Method)

\* a request without proof is answered after an earlier request was served
C29_Witness ==
    /\ allowed = {"TX1"}
    /\ pc = "done" /\ ClientSentNoProof
    /\ client.URL = "/market/crypto/bitcoin"
    /\ Answered(402, "required")
    /\ response.ResponseError.paymentRequirements.maxAmountRequired = "100"

(***************************************************************************)
(* C30: the /v1/verify request is built from the proof's transaction       *)
(* payload and the route's requirement only: paymentPayload.transaction is *)
(* the proof's transaction, else its payload; network, recipient,          *)
(* feePayer, amount and token are the requirement's network, payTo,        *)
(* feePayer, integer maxAmountRequired and asset.  The proof's own network *)
(* or payer shows neither in the request nor in what is carried.           *)
(***************************************************************************)
\* the proof text the client sent under a header name the handler reads
ClientProofText ==
    LET h == IF client.Headers["X-Payment-x402"] \notin {Absent, Scalar("")}
             THEN client.Headers["X-Payment-x402"]
             ELSE client.Headers["X-Payment-X402"]
    IN  h.v[1]

\* the transaction payload inside a proof text
TransactionIn(text) ==
    CASE text \in {ProofTX1, ProofFull} -> "TX1"
      [] text = ProofPL1 -> "PL1"
      [] OTHER -> ""

C30_VerifyRequestFromRequirement ==
    (calls # <<>> /\ calls[1].endpoint = "/v1/verify")
        => LET x == RequirementOf(client.URL, client.Method)
           IN  /\ calls[1].ppTransaction = TransactionIn(ClientProofText)
               /\ calls[1].ppNetwork = x.network
               /\ calls[1].network = x.network
               /\ calls[1].kind = "spl-token"
               /\ calls[1].recipient = x.payTo
               /\ calls[1].feePayer = x.feePayer
               /\ calls[1].amount = parseInt(x.maxAmountRequired)
               /\ calls[1].token = x.asset
               /\ calls[1].transaction = Undefined
               /\ (VerifiedJustNow /\ SaidValid(Last(events).reply))
                     => /\ request.SetHeaders["X-Payment-Network"] = x.network
                        /\ request.SetHeaders["X-Payment-Recipient"] = x.payTo
                        /\ request.SetHeaders["X-Payment-Payer"]
                              \in {Last(events).reply.Body.payer, "anonymous"}

\* a proof that names its own network and payer was verified and allowed
C30_Witness ==
    /\ VerifiedJustNow /\ SaidValid(Last(events).reply)
    /\ client.Headers["X-Payment-x402"] = List(<<ProofFull>>)
    /\ calls[1].ppTransaction = "TX1"
    /\ calls[1].ppNetwork = "solana-devnet"
    /\ request.SetHeaders["X-Payment-Payer"] = "anonymous"

(***************************************************************************)
(* C31: when the host echoes the carried headers back unmodified, the      *)
(* /v1/settle request of a request carries the network, recipient, amount  *)
(* and token its /v1/verify request carried (the route's network, payTo,   *)
(* integer maxAmountRequired and asset), whether the headers arrive as     *)
(* single values or as lists.                                              *)
(***************************************************************************)
\* the same JSON value; a value that is left out and null both say "none"
SameValue(a, b) == a = b \/ {a, b} \subseteq {Undefined, Null}

C31_SettleCarriesVerifiedTerms ==
    (/\ Len(calls) = 2
     /\ calls[1].endpoint = "/v1/verify" /\ calls[2].endpoint = "/v1/settle")
        => LET x == RequirementOf(client.URL, client.Method)
           IN  /\ SameValue(calls[2].network, calls[1].network)
               /\ SameValue(calls[2].recipient, calls[1].recipient)
               /\ calls[2].amount = calls[1].amount
               /\ SameValue(calls[2].token, calls[1].token)
               /\ SameValue(calls[2].network, x.network)
               /\ calls[2].recipient = x.payTo
               /\ calls[2].amount = parseInt(x.maxAmountRequired)
               /\ calls[2].token = x.asset

C33_PhaseFlagEitherForm ==
    (/\ pc \in {"http", "returned"}
     /\ Carried(client.Headers["X-Payment-Valid"]) = "true")
        => /\ \A i \in DOMAIN calls : calls[i].endpoint # "/v1/verify"
           /\ request.ReturnOverrides = NoOverrides

(***************************************************************************)
(* C34: no verification result is kept across requests: every request to   *)
(* a metered route whose proof header parses as JSON causes one            *)
(* /v1/verify call of its own, also when the same proof was verified and   *)
(* served before, and whether it is let through depends only on the reply  *)
(* to that call.                                                           *)
(***************************************************************************)
JsonProofTexts == {"null", "{}", ProofTX1, ProofPL1, ProofFull}

C34_NoVerificationCache ==
    (/\ phase = "pre" /\ pc \in {"returned", "done"}
     /\ ClientMetered
     /\ \E t \in JsonProofTexts : client.Headers["X-Payment-x402"] = List(<<t>>))
        => /\ Len(calls) = 1 /\ calls[1].endpoint = "/v1/verify"
           /\ Len(events) >= 2 /\ events[2].type = "verify-reply"
           /\ PassedThrough(request) <=> SaidValid(events[2].reply)

(***************************************************************************)
(* C35: the payment-required answer fills the optional configuration with  *)
(* defaults and is otherwise literal: scheme is the configured one or      *)
(* "exact", description the configured one or "Access to " followed by     *)
(* the request URL, x402Version is 1, maxTimeoutSeconds is 60, payTo and   *)
(* asset are the configured values, and the headers are exactly            *)
(* Content-Type, X-Payment-Required x402, X-Payment-Status required and    *)
(* X-Payment-Protocol-Version.                                             *)
(***************************************************************************)
C35_PaymentRequiredBody ==
    (pc = "returned" /\ phase = "pre"
        /\ request.ReturnOverrides.ResponseCode = 402
        /\ request.ReturnOverrides.ResponseError.error = "Payment Required")
        => LET x == RequirementOf(client.URL, client.Method)
               body == request.ReturnOverrides.ResponseError
               shown == body.paymentRequirements
           IN  /\ body.x402Version = 1
               /\ shown.maxTimeoutSeconds = 60
               /\ shown.scheme = (IF x.scheme = Undefined THEN "exact" ELSE x.scheme)
               /\ shown.description =
                     (IF x.description = Undefined
                      THEN "Access to " \o client.URL ELSE x.description)
               /\ shown.payTo = x.payTo
               /\ shown.asset = x.asset
               /\ request.ReturnOverrides.ResponseHeaders =
                     {<<"Content-Type", "application/json">>,
                      <<"X-Payment-Required", "x402">>,
                      <<"X-Payment-Status", "required">>,
                      <<"X-Payment-Protocol-Version", MIDDLEWARE_VERSION>>}

\* the route without optional fields answered with the defaults
C35_Witness ==
    /\ pc = "returned" /\ phase = "pre"
    /\ client.URL = "/bare"
    /\ request.ReturnOverrides.ResponseCode = 402
    /\ request.ReturnOverrides.ResponseError.paymentRequirements.scheme = "exact"
    /\ request.ReturnOverrides.ResponseError.paymentRequirements.description
          = "Access to /bare"
    /\ request.ReturnOverrides.ResponseError.paymentRequirements.payTo = "PAYTO_WALLET"

(***************************************************************************)
(* C36: every amount sent to the facilitator, in /v1/verify and in         *)
(* /v1/settle, is a positive integer: a missing, empty, non-numeric, zero  *)
(* or negative maxAmountRequired or X-Payment-Amount never becomes the     *)
(* amount of a request.                                                    *)
(***************************************************************************)
PositiveInteger(a) == ~a.nan /\ a.n > 0

C36_AmountsPositive ==
    \A i \in DOMAIN calls : PositiveInteger(calls[i].amount)

(***************************************************************************)
(* C37: rejection and carried metadata exclude each other: in every state  *)
(* after a pre-phase invocation, a response override (402 required, 402    *)
(* invalid or 500) means the handler set none of the carried X-Payment-*   *)
(* headers, and X-Payment-Valid set means no response override.            *)
(***************************************************************************)
C37_RejectionExcludesMetadata ==
    (phase = "pre" /\ pc \in {"returned", "done"})
        => /\ (request.ReturnOverrides # NoOverrides)
                 => request.SetHeaders = NoSetHeaders
           /\ (request.SetHeaders["X-Payment-Valid"] # Undefined)
                 => request.ReturnOverrides = NoOverrides
           /\ request.ReturnOverrides.ResponseCode \in {0, 402, 500}

\* a verdict of invalid was answered 402 with nothing carried
C37_Witness ==
    /\ VerifiedJustNow /\ SaidInvalid(Last(events).reply)
    /\ Overridden(request, 402, "invalid")
    /\ request.SetHeaders = NoSetHeaders

(***************************************************************************)
(* C38: what a route advertises is what it enforces: the network and the   *)
(* amount of the 402 payment-required body for a route are the network     *)
(* and the amount its /v1/verify request sends, also where the             *)
(* configuration omits them and the defaults are shown.                    *)
(***************************************************************************)
\* the requirements the payment-required answer shows for a route
Advertised(url, method) ==
    requestPayment(NewRequest(url, method, NoHeaders), RequirementOf(url, method))
        .ReturnOverrides.ResponseError.paymentRequirements

C38_AdvertisedIsEnforced ==
    (calls # <<>> /\ calls[1].endpoint = "/v1/verify")
        => LET shown == Advertised(client.URL, client.Method)
           IN  /\ calls[1].ppNetwork = shown.network
               /\ calls[1].network = shown.network
               /\ calls[1].amount = parseInt(shown.maxAmountRequired)

====
